---- MODULE Spec2Model ----
(***************************************************************************)
(* Model of the duplicate-collapsing engine of CollapseSeq.py:             *)
(* findUID, findUniqueSeq and the pass loop and output stage of            *)
(* collapseSeq.  One step of the model is one iteration of the record      *)
(* loop of findUniqueSeq, the end of one pass, or the output stage.        *)
(* The module also models the header operations of ParseHeaders.py, with   *)
(* the annotation functions they call, and sortSeqFile of SplitSeq.py.     *)
(***************************************************************************)
EXTENDS Integers, Sequences, FiniteSets, TLC

VARIABLES
    seq_dict,       \* key -> input record (SeqIO.index of the input file)
    max_missing,    \* argument max_missing of collapseSeq
    uniq_fields,    \* TRUE when uniq_fields is not None
    max_field,      \* TRUE when max_field is not None
    min_field,      \* TRUE when min_field is not None
    inner,          \* argument inner
    phred,          \* TRUE when the records carry letter_annotations['phred_quality']
    copy_fields,    \* TRUE when copy_fields is not None (one copy field)
    copy_actions,   \* the collapse action of the copy field, or "None"
    clean,          \* out_args['clean']
    uniq_dict,      \* uid -> [seq, count, ambig, cid]: the list stored per unique group
    uniq_order,     \* history: the uids in the order their groups were created
    group_of,       \* history: key -> uid of the group the record was assigned to
    group_keys,     \* history: uid -> the keys assigned to the group, in processing order
    search_keys,    \* the pending keys
    dup_keys,       \* collapseSeq's list of duplicate keys
    dup_list,       \* findUniqueSeq's local dup_keys of the running pass
    to_remove,      \* findUniqueSeq's local to_remove
    n,              \* budget of the running pass (loop variable of collapseSeq)
    idx,            \* position of the record loop inside search_keys (1-based)
    uid,            \* findUniqueSeq's local uid of the last processed record
    match,          \* findUniqueSeq's local match of the last processed record
    passes,         \* history: number of calls of findUniqueSeq so far
    out,            \* the three output files: uniq, dup, undetermined
    run,            \* ordinal of the current run of collapseSeq
    prev,           \* result of the previous run of collapseSeq
    pc,             \* "loop", "write", "done", or "error" after an uncaught exception
    ann_dict_1,     \* the first annotation map handed to a call
    ann_dict_2,     \* the second annotation map handed to a call
    delimiter,      \* the delimiter tuple
    description,    \* the header text of a record
    result,         \* the map returned by the last call
    calls,          \* history: the calls made so far, with their arguments
    tag_dict,       \* sortSeqFile: key -> value of the sort field
    max_count,      \* sortSeqFile: argument max_count
    sorted_keys,    \* sortSeqFile: the keys in sorted order
    rec_count,      \* sortSeqFile: number of records
    file_count,     \* sortSeqFile: number of output files opened
    out_files,      \* sortSeqFile: the keys written to each opened output file
    last_tag,       \* sortSeqFile: tag of the previous key
    saved_keys,     \* sortSeqFile: keys of the running tag not yet written
    seq_count,      \* sortSeqFile: number of keys visited
    chunk_count,    \* sortSeqFile: number of records written to the open file
    sort_pc         \* sortSeqFile: "start", "loop" or "done"

args == <<seq_dict, max_missing, uniq_fields, max_field, min_field, inner, phred,
          copy_fields, copy_actions, clean>>

collapseVars == <<args, uniq_dict, uniq_order, group_of, group_keys, search_keys,
                  dup_keys, dup_list, to_remove, n, idx, uid, match, passes, out,
                  run, prev, pc>>

hdrVars == <<ann_dict_1, ann_dict_2, delimiter, description, result, calls>>

sortVars == <<tag_dict, max_count, sorted_keys, rec_count, file_count, out_files,
              last_tag, saved_keys, seq_count, chunk_count, sort_pc>>

vars == <<collapseVars, hdrVars, sortVars>>

----------------------------------------------------------------------------
(* Bounds of the model *)

MaxRecs == 3

MaxMissingBound == 2

\* calls of the annotation functions, or of modifyHeaders, in one behaviour
MaxCalls == 2

\* fields besides ID of a map handed to flattenAnnotation
MaxFields == 2

\* records of a file handed to sortSeqFile, and values of its sort field
MaxSortRecs == 4

MaxTag == 3

----------------------------------------------------------------------------
(* Values *)

\* Python's None for a match and for a uid not yet computed
None == <<>>

\* the value of uid[1:] when uniq_fields is None: (seq_str, None)
NoFields == "None"

\* None as the value of max_count in sortSeqFile
NoMaxCount == -1

\* None as the value of last_tag in sortSeqFile
NoTag == 0

\* a record: its sequence, the value of its required-equal annotation, the
\* number read by the replacement test (the max_field / min_field annotation
\* or the mean phred quality), the values of a DUPCOUNT annotation already
\* present in its header, the value text of its copy field and whether
\* float() accepts the text of its max_field / min_field annotation
Rec(s, a, q, d) ==
    [seq |-> s, ann |-> a, score |-> q, dupcount |-> d, copy |-> <<"1">>,
     numeric |-> TRUE]

RecordPool ==
    { Rec(<<"A", "C">>, "a", 1, <<>>),
      Rec(<<"A", "C">>, "a", 2, <<>>),
      Rec(<<"A", "C">>, "b", 1, <<2>>),
      Rec(<<"A", "N">>, "a", 1, <<>>),
      Rec(<<"C", "N">>, "a", 3, <<>>),
      Rec(<<"N", "A">>, "a", 2, <<>>),
      Rec(<<"N", "A", "C">>, "a", 1, <<>>),
      Rec(<<"A", "N", "C">>, "a", 2, <<>>),
      Rec(<<"N", "N">>, "b", 2, <<>>) }

\* the records of TestIgCore.setUp, keyed SEQ1..SEQ4 by position
records_dna ==
    << Rec(<<"C", "G", "G", "C", "G", "T", "A", "A">>, "a", 1, <<>>),
       Rec(<<"C", "G", "N", "N", "G", "T", "A", "A">>, "a", 1, <<>>),
       Rec(<<"C", "G", "G", "C", "-", "-", "A", "A">>, "a", 1, <<>>),
       Rec(<<"C", "G", "N", "N", "-", "-", "A", "A">>, "a", 1, <<>>) >>

Range(s) == { s[i] : i \in DOMAIN s }

----------------------------------------------------------------------------
(* Sequence helpers *)

\* ambig_re = re.compile(r'[\.\-N]')
ambig_re == {".", "-", "N"}

\* default_missing_chars
default_missing_chars == {"-", ".", "N", "n"}

\* str.upper on the characters of the model
upper(c) == IF c = "n" THEN "N"
            ELSE IF c = "a" THEN "A"
            ELSE IF c = "c" THEN "C" ELSE c

RECURSIVE lstrip(_)
lstrip(s) == IF s # <<>> /\ Head(s) \in {".", "-", "N"} THEN lstrip(Tail(s)) ELSE s

RECURSIVE rstrip(_)
rstrip(s) == IF s # <<>> /\ s[Len(s)] \in {".", "-", "N"}
             THEN rstrip(SubSeq(s, 1, Len(s) - 1)) ELSE s

\* seq_str.strip('.-N')
strip(s) == rstrip(lstrip(s))

\* seq_str of a record: str(seq.seq), stripped when inner
seq_str(rec, inn) == IF inn THEN strip(rec.seq) ELSE rec.seq

\* len(ambig_re.findall(seq_str))
ambig_countOnlyN(s) == Cardinality({ i \in DOMAIN s : s[i] = "N" })

ambig_count(s) == Cardinality({ i \in DOMAIN s : s[i] \in ambig_re })

\* IgCore.testSeqEqual
testSeqEqual(a, b) ==
    /\ Len(a) = Len(b)
    /\ \A i \in DOMAIN a :
          \/ upper(a[i]) = upper(b[i])
          \/ a[i] \in default_missing_chars
          \/ b[i] \in default_missing_chars

\* the uid of a record
makeUIDSeqOnly(rec, inn, uf) == <<seq_str(rec, inn), NoFields>>

makeUID(rec, inn, uf) ==
    IF uf THEN <<seq_str(rec, inn), rec.ann>> ELSE <<seq_str(rec, inn), NoFields>>

----------------------------------------------------------------------------
(* findUID: the set of keys the call can return.  uniq_dict is a plain     *)
(* dict, whose iteration order the language leaves open, so the scan can   *)
(* meet the matching keys in any order.                                    *)

QualifiesFieldsOnly(u, key) == u[2] = key[2]

Qualifies(u, key) == u[2] = key[2] /\ testSeqEqual(u[1], key[1])

findUID(u, search_dict, score) ==
    IF ~score
    THEN IF u \in DOMAIN search_dict THEN {u} ELSE {None}
    ELSE IF \E key \in DOMAIN search_dict : Qualifies(u, key)
         THEN { key \in DOMAIN search_dict : Qualifies(u, key) }
         ELSE {None}

----------------------------------------------------------------------------
(* The replacement test of findUniqueSeq *)

swapTestGE(rec, rec_last, maxf, minf, ph) ==
    IF maxf \/ minf \/ ph THEN rec.score >= rec_last.score ELSE FALSE

swapTestMinLess(rec, rec_last, maxf, minf, ph) ==
    IF maxf THEN rec.score > rec_last.score
    ELSE IF minf THEN rec.score < rec_last.score
    ELSE IF ph THEN rec.score > rec_last.score
    ELSE FALSE

swapTestAnyScore(rec, rec_last, maxf, minf, ph) == rec.score > rec_last.score

swapTest(rec, rec_last, maxf, minf, ph) ==
    IF maxf THEN rec.score > rec_last.score
    ELSE IF minf THEN rec.score > rec_last.score
    ELSE IF ph THEN rec.score > rec_last.score
    ELSE FALSE

\* del search_keys[j]
DelAt(s, j) == SubSeq(s, 1, j - 1) \o SubSeq(s, j + 1, Len(s))

\* for j in reversed(to_remove):  del search_keys[j]
RECURSIVE removeKeys(_, _)
removeKeys(keys, rem) ==
    IF rem = <<>> THEN keys
    ELSE removeKeys(DelAt(keys, rem[Len(rem)]), SubSeq(rem, 1, Len(rem) - 1))

----------------------------------------------------------------------------
(* Annotation maps.  A string is a sequence of characters; an annotation   *)
(* map is a sequence of entries <<name, values>>, values being the ordered *)
(* list of the field's string values.                                      *)

ID == <<"I", "D">>

\* the value of a call that raised: a map no call returns
Failure == << <<<<"!">>, <<>>>> >>

\* default_delimiter and default_separator
default_delimiter == <<"|", "=", ",">>

default_separator == ","

Digits == <<"0", "1", "2", "3", "4", "5", "6", "7", "8", "9">>

isDigit(c) == \E i \in 1..10 : Digits[i] = c

digitValue(c) == (CHOOSE i \in 1..10 : Digits[i] = c) - 1

\* float(t) does not raise
isNumeric(t) == t # <<>> /\ \A i \in DOMAIN t : isDigit(t[i])

\* float(t)
RECURSIVE float(_)
float(t) ==
    IF Len(t) = 1 THEN digitValue(t[1])
    ELSE 10 * float(SubSeq(t, 1, Len(t) - 1)) + digitValue(t[Len(t)])

\* the text of a number
RECURSIVE str(_)
str(i) == IF i < 10 THEN <<Digits[i + 1]>>
          ELSE str(i \div 10) \o <<Digits[(i % 10) + 1]>>

\* s.split(c)
RECURSIVE split(_, _)
split(s, c) ==
    IF \E i \in DOMAIN s : s[i] = c
    THEN LET i == CHOOSE j \in DOMAIN s : s[j] = c /\ \A k \in 1..(j - 1) : s[k] # c
         IN <<SubSeq(s, 1, i - 1)>> \o split(SubSeq(s, i + 1, Len(s)), c)
    ELSE <<s>>

\* c.join(parts)
RECURSIVE join(_, _)
join(parts, c) ==
    IF parts = <<>> THEN <<>>
    ELSE IF Len(parts) = 1 THEN parts[1]
    ELSE parts[1] \o <<c>> \o join(Tail(parts), c)

\* ''.join(parts)
RECURSIVE concat(_)
concat(parts) == IF parts = <<>> THEN <<>> ELSE parts[1] \o concat(Tail(parts))

names(m) == { m[i][1] : i \in DOMAIN m }

\* the position of field f in map m
fieldIndex(m, f) ==
    CHOOSE i \in DOMAIN m : m[i][1] = f /\ \A j \in 1..(i - 1) : m[j][1] # f

\* m[f]
get(m, f) == m[fieldIndex(m, f)][2]

\* del m[f]
delField(m, f) == DelAt(m, fieldIndex(m, f))

\* IgCore.parseAnnotation
RECURSIVE parseTokens(_, _, _)
parseTokens(tokens, m, d) ==
    IF tokens = <<>> THEN m
    ELSE LET t == Head(tokens)
             kv == split(t, d[2])
             f == kv[1]
             v == split(join(Tail(kv), d[2]), d[3])
         IN IF Len(kv) < 2 THEN Failure
            ELSE parseTokens(Tail(tokens),
                             IF f \in names(m)
                             THEN [m EXCEPT ![fieldIndex(m, f)][2] = v]
                             ELSE Append(m, <<f, v>>),
                             d)

parseAnnotation(text, d) ==
    LET tokens == split(text, d[1])
    IN parseTokens(Tail(tokens), << <<ID, <<Head(tokens)>>>> >>, d)

\* IgCore.flattenAnnotation
flattenEntryBare(e, d) == join(e[2], d[3])

flattenEntry(e, d) ==
    IF e[1] = ID THEN join(e[2], d[3]) ELSE e[1] \o <<d[2]>> \o join(e[2], d[3])

flattenAnnotation(m, d) == join([i \in DOMAIN m |-> flattenEntry(m[i], d)], d[1])

\* IgCore.mergeAnnotation
mergeValuesAppendOnly(old, new, prepend) == old \o new

mergeValues(old, new, prepend) == IF prepend THEN new \o old ELSE old \o new

mergeEntry(m, e, prepend) ==
    IF e[1] = ID THEN m
    ELSE IF e[1] \in names(m)
         THEN [m EXCEPT ![fieldIndex(m, e[1])][2] = mergeValues(@, e[2], prepend)]
         ELSE Append(m, e)

RECURSIVE mergeAnnotation(_, _, _)
mergeAnnotation(ann_1, ann_2, prepend) ==
    IF ann_1 = Failure THEN Failure
    ELSE IF ann_2 = <<>> THEN ann_1
    ELSE mergeAnnotation(mergeEntry(ann_1, Head(ann_2), prepend), Tail(ann_2), prepend)

\* IgCore.collapseAnnotation
CollapseActions == {"first", "last", "set", "cat", "min", "max", "sum"}

RECURSIVE unique(_)
unique(v) ==
    IF v = <<>> THEN <<>>
    ELSE LET r == unique(SubSeq(v, 1, Len(v) - 1))
         IN IF \E i \in DOMAIN r : r[i] = v[Len(v)] THEN r ELSE Append(r, v[Len(v)])

RECURSIVE sum(_)
sum(v) == IF v = <<>> THEN 0 ELSE float(Head(v)) + sum(Tail(v))

min(v) == CHOOSE x \in { float(v[i]) : i \in DOMAIN v } :
              \A i \in DOMAIN v : x <= float(v[i])

max(v) == CHOOSE x \in { float(v[i]) : i \in DOMAIN v } :
              \A i \in DOMAIN v : x >= float(v[i])

\* the action raises on these values
collapseRaises(action, v) ==
    \/ action \notin CollapseActions
    \/ action \in {"min", "max", "sum"} /\ \E i \in DOMAIN v : ~isNumeric(v[i])

collapseValuesSumAsCat(action, v) ==
    IF action = "first" THEN <<v[1]>>
    ELSE IF action = "last" THEN <<v[Len(v)]>>
    ELSE IF action = "set" THEN unique(v)
    ELSE IF action = "min" THEN <<str(min(v))>>
    ELSE IF action = "max" THEN <<str(max(v))>>
    ELSE <<concat(v)>>

collapseValues(action, v) ==
    IF action = "first" THEN <<v[1]>>
    ELSE IF action = "last" THEN <<v[Len(v)]>>
    ELSE IF action = "set" THEN unique(v)
    ELSE IF action = "cat" THEN <<concat(v)>>
    ELSE IF action = "min" THEN <<str(min(v))>>
    ELSE IF action = "max" THEN <<str(max(v))>>
    ELSE <<str(sum(v))>>

\* the fields a call collapses: the named ones, or every field but ID
collapsed(m, fields) == IF fields = None THEN names(m) \ {ID} ELSE Range(fields)

collapseAnnotation(m, action, fields) ==
    IF m = Failure
       \/ \E i \in DOMAIN m : m[i][1] \in collapsed(m, fields)
                              /\ collapseRaises(action, m[i][2])
    THEN Failure
    ELSE [i \in DOMAIN m |->
            IF m[i][1] \in collapsed(m, fields)
            THEN <<m[i][1], collapseValues(action, m[i][2])>>
            ELSE m[i]]

\* IgCore.renameAnnotation
renameKeepOld(m, old_field, new_field) ==
    IF m = Failure \/ old_field \notin names(m) THEN Failure
    ELSE Append(m, <<new_field, get(m, old_field)>>)

renameAnnotation(m, old_field, new_field) ==
    IF m = Failure \/ old_field \notin names(m) THEN Failure
    ELSE [m EXCEPT ![fieldIndex(m, old_field)][1] = new_field]

----------------------------------------------------------------------------
(* The header operations of ParseHeaders.py *)

\* addHeader
RECURSIVE addHeader(_, _, _)
addHeader(header, fields, values) ==
    IF fields = <<>> \/ values = <<>> THEN header
    ELSE addHeader(mergeAnnotation(header, << <<Head(fields), <<Head(values)>>>> >>,
                                   FALSE),
                   Tail(fields), Tail(values))

\* collapseHeader
RECURSIVE collapseHeader(_, _, _)
collapseHeader(header, fields, actions) ==
    IF fields = <<>> \/ actions = <<>> THEN header
    ELSE collapseHeader(collapseAnnotation(header, Head(actions), <<Head(fields)>>),
                        Tail(fields), Tail(actions))

\* deleteHeader
RECURSIVE deleteHeader(_, _)
deleteHeader(header, fields) ==
    IF fields = <<>> THEN header
    ELSE IF header = Failure \/ Head(fields) \notin names(header) THEN Failure
    ELSE deleteHeader(delField(header, Head(fields)), Tail(fields))

\* expandHeader: the body of the loop for one field f.  header[f] is the
\* value text of the field
expandFieldKeep(header, f, separator, d) ==
    IF header = Failure \/ f \notin names(header) THEN Failure
    ELSE LET values == split(join(get(header, f), d[3]), separator)
             ann == [i \in DOMAIN values |-> <<f \o str(i), <<values[i]>>>>]
         IN mergeAnnotation(header, ann, FALSE)

expandField(header, f, separator, d) ==
    IF header = Failure \/ f \notin names(header) THEN Failure
    ELSE LET values == split(join(get(header, f), d[3]), separator)
             ann == [i \in DOMAIN values |-> <<f \o str(i), <<values[i]>>>>]
         IN delField(mergeAnnotation(header, ann, FALSE), f)

RECURSIVE expandHeader(_, _, _, _)
expandHeader(header, fields, separator, d) ==
    IF fields = <<>> THEN header
    ELSE expandHeader(expandField(header, Head(fields), separator, d),
                      Tail(fields), separator, d)

\* renameHeader
RECURSIVE renameHeader(_, _, _)
renameHeader(header, fields, new_names) ==
    IF fields = <<>> \/ new_names = <<>> THEN header
    ELSE renameHeader(renameAnnotation(header, Head(fields), Head(new_names)),
                      Tail(fields), Tail(new_names))

----------------------------------------------------------------------------
(* Initial states *)

IdleHeaders ==
    /\ ann_dict_1 = <<>>
    /\ ann_dict_2 = <<>>
    /\ delimiter = default_delimiter
    /\ description = <<>>
    /\ result = <<>>
    /\ calls = <<>>

IdleSort ==
    /\ tag_dict = <<>>
    /\ max_count = NoMaxCount
    /\ sorted_keys = <<>>
    /\ rec_count = 0
    /\ file_count = 0
    /\ out_files = <<>>
    /\ last_tag = NoTag
    /\ saved_keys = <<>>
    /\ seq_count = 0
    /\ chunk_count = 0
    /\ sort_pc = "idle"

NoResult == [run |-> 0]

NoOutput ==
    [uniq |-> <<>>, dup |-> <<>>, undetermined |-> <<>>,
     dup_seqs |-> <<>>, undetermined_seqs |-> <<>>]

StartCollapse(recs, keys) ==
    /\ seq_dict = recs
    /\ uniq_dict = <<>>
    /\ uniq_order = <<>>
    /\ group_of = [k \in DOMAIN recs |-> None]
    /\ group_keys = <<>>
    /\ search_keys = keys
    /\ dup_keys = <<>>
    /\ dup_list = <<>>
    /\ to_remove = <<>>
    /\ idx = 1
    /\ uid = None
    /\ match = None
    /\ passes = 1
    /\ out = NoOutput
    /\ run = 1
    /\ prev = NoResult
    /\ pc = "loop"

Start(recs, keys) == StartCollapse(recs, keys) /\ IdleHeaders /\ IdleSort

\* no run of collapseSeq
IdleCollapse ==
    /\ max_missing = 0
    /\ uniq_fields = FALSE
    /\ max_field = FALSE
    /\ min_field = FALSE
    /\ inner = FALSE
    /\ phred = FALSE
    /\ copy_fields = FALSE
    /\ copy_actions = "None"
    /\ clean = FALSE
    /\ n = 0
    /\ StartCollapse(<<>>, <<>>)

Params ==
    /\ max_missing \in 0..MaxMissingBound
    /\ uniq_fields \in BOOLEAN
    /\ max_field \in BOOLEAN
    /\ min_field \in BOOLEAN
    /\ ~(max_field /\ min_field)
    /\ inner \in BOOLEAN
    /\ phred \in BOOLEAN
    /\ copy_fields = FALSE
    /\ copy_actions = "None"
    /\ clean = FALSE

Identity(len) == [i \in 1..len |-> i]

Init ==
    /\ Params
    /\ n = 0
    /\ \E len \in 1..MaxRecs : \E recs \in [1..len -> RecordPool] :
          Start(recs, Identity(len))

----------------------------------------------------------------------------
(* One iteration of the record loop of findUniqueSeq *)

\* if ambig_count > max_missing:  continue
overThresholdGE(cnt, budget) == cnt >= budget

overThreshold(cnt, budget) == cnt > budget

\* cid = [[ann.get(k)] for k in copy_fields], or [] without copy fields
copyIds(rec, cf) == IF cf THEN << <<rec.copy>> >> ELSE <<>>

\* uniq_dict[uid] = list(chain([seq, 1, ambig_count], cid))
newGroupZeroAmbig(key, cnt, cid) ==
    [seq |-> key, count |-> 1, ambig |-> 0, cid |-> cid]

newGroup(key, cnt, cid) == [seq |-> key, count |-> 1, ambig |-> cnt, cid |-> cid]

\* the value of swap when the replacement is decided
swapDecisionNoAmbigTest(cnt, g, rec, rec_last, maxf, minf, ph) ==
    swapTest(rec, rec_last, maxf, minf, ph)

swapDecision(cnt, g, rec, rec_last, maxf, minf, ph) ==
    /\ cnt <= g.ambig
    /\ swapTest(rec, rec_last, maxf, minf, ph)

\* the key appended to dup_keys for a matched record
dupKeyAlwaysKey(key, seq_last, swap) == key

dupKey(key, seq_last, swap) == IF swap THEN seq_last ELSE key

\* uniq_dict[match][1] += 1 and the extension of the copy lists
countDuplicateNoExtend(g, cid) == [g EXCEPT !.count = @ + 1]

countDuplicate(g, cid) ==
    [g EXCEPT !.count = @ + 1,
              !.cid = [x \in DOMAIN g.cid |-> g.cid[x] \o cid[x]]]

\* the updates of uniq_dict[match] for a matched record
updateGroup(g, key, cnt, swap, cid) ==
    [seq |-> IF swap THEN key ELSE g.seq,
     count |-> countDuplicate(g, cid).count,
     ambig |-> IF swap THEN cnt ELSE g.ambig,
     cid |-> countDuplicate(g, cid).cid]

\* float() of the max_field / min_field annotation raises ValueError
floatRaises(cnt, g, rec, rec_last, maxf, minf) ==
    /\ cnt <= g.ambig
    /\ maxf \/ minf
    /\ ~rec.numeric \/ ~rec_last.numeric

ProcessKey ==
    /\ pc = "loop"
    /\ idx <= Len(search_keys)
    /\ LET key == search_keys[idx]
           rec == seq_dict[key]
           cnt == ambig_count(seq_str(rec, inner))
           u == makeUID(rec, inner, uniq_fields)
           cid == copyIds(rec, copy_fields)
       IN IF overThreshold(cnt, n)
          THEN /\ idx' = idx + 1
               /\ UNCHANGED <<uniq_dict, uniq_order, group_of, group_keys, dup_list,
                              to_remove, uid, match, pc>>
          ELSE \E m \in findUID(u, uniq_dict, n > 0) :
                 /\ uid' = u
                 /\ match' = m
                 /\ IF m = None
                    THEN /\ uniq_dict' = (u :> newGroup(key, cnt, cid)) @@ uniq_dict
                         /\ uniq_order' = Append(uniq_order, u)
                         /\ group_of' = [group_of EXCEPT ![key] = u]
                         /\ group_keys' = (u :> <<key>>) @@ group_keys
                         /\ to_remove' = Append(to_remove, idx)
                         /\ idx' = idx + 1
                         /\ UNCHANGED <<dup_list, pc>>
                    ELSE LET g == uniq_dict[m]
                             seq_last == g.seq
                             swap == swapDecision(cnt, g, rec, seq_dict[seq_last],
                                                  max_field, min_field, phred)
                         IN IF floatRaises(cnt, g, rec, seq_dict[seq_last],
                                           max_field, min_field)
                            THEN \* the exception leaves findUniqueSeq and collapseSeq
                                 /\ uniq_dict' = [uniq_dict EXCEPT
                                                    ![m] = countDuplicate(g, cid)]
                                 /\ pc' = "error"
                                 /\ UNCHANGED <<uniq_order, group_of, group_keys,
                                                dup_list, to_remove, idx>>
                            ELSE /\ uniq_dict' = [uniq_dict EXCEPT
                                          ![m] = updateGroup(g, key, cnt, swap, cid)]
                                 /\ dup_list' = Append(dup_list,
                                                       dupKey(key, seq_last, swap))
                                 /\ group_of' = [group_of EXCEPT ![key] = m]
                                 /\ group_keys' = [group_keys EXCEPT
                                                     ![m] = Append(@, key)]
                                 /\ to_remove' = Append(to_remove, idx)
                                 /\ idx' = idx + 1
                                 /\ UNCHANGED <<uniq_order, pc>>
    /\ UNCHANGED <<args, search_keys, dup_keys, n, passes, out, run, prev>>
    /\ UNCHANGED <<hdrVars, sortVars>>

----------------------------------------------------------------------------
(* The end of a pass: the tail of findUniqueSeq and the rest of the body   *)
(* of the pass loop of collapseSeq                                         *)

\* the pass loop ends after the pass with budget max_missing, or at the
\* break taken when no key is left
loopEndsNoBreak(keys, budget, mm) == budget = mm

loopEnds(keys, budget, mm) == Len(keys) = 0 \/ budget = mm

EndPass ==
    /\ pc = "loop"
    /\ idx > Len(search_keys)
    /\ LET keys == removeKeys(search_keys, to_remove)
       IN /\ search_keys' = keys
          /\ dup_keys' = dup_keys \o dup_list
          /\ IF loopEnds(keys, n, max_missing)
             THEN /\ pc' = "write"
                  /\ UNCHANGED <<n, passes>>
             ELSE /\ pc' = "loop"
                  /\ n' = n + 1
                  /\ passes' = passes + 1
    /\ idx' = 1
    /\ dup_list' = <<>>
    /\ to_remove' = <<>>
    /\ uid' = None
    /\ match' = None
    /\ UNCHANGED <<args, uniq_dict, uniq_order, group_of, group_keys, out, run,
                   prev>>
    /\ UNCHANGED <<hdrVars, sortVars>>

----------------------------------------------------------------------------
(* The output stage of collapseSeq *)

\* mergeAnnotation on the DUPCOUNT field: the values of out_app are
\* appended to the values the header already holds
mergeDupcount(old, new) == old \o new

\* the values of the copy field in the header of a representative: those of
\* out_app after collapseAnnotation, the field being popped from out_ann
outCopy(val) ==
    IF copy_fields /\ copy_actions # "None"
    THEN collapseValues(copy_actions, val.cid[1])
    ELSE <<seq_dict[val.seq].copy>>

\* the sequence string of the record written for a group: that of val[0]
outSeqStrTrimmed(val) == seq_str(seq_dict[val.seq], inner)

outSeqStr(val) == seq_dict[val.seq].seq

\* the record written for one value of uniq_dict
outSeq(val) ==
    [id |-> val.seq,
     seq |-> outSeqStr(val),
     ann |-> seq_dict[val.seq].ann,
     copy |-> outCopy(val),
     DUPCOUNT |-> mergeDupcount(seq_dict[val.seq].dupcount, <<val.count>>)]

\* SeqIO.write(seq_dict[k], ...): the record of the input file under key k
seqWrite(k) ==
    [id |-> k,
     seq |-> seq_dict[k].seq,
     ann |-> seq_dict[k].ann,
     copy |-> <<seq_dict[k].copy>>,
     DUPCOUNT |-> seq_dict[k].dupcount]

WriteOutput ==
    /\ pc = "write"
    /\ out' = [uniq |-> [u \in DOMAIN uniq_dict |-> outSeq(uniq_dict[u])],
               dup |-> IF clean THEN <<>> ELSE dup_keys,
               undetermined |-> IF clean THEN <<>> ELSE search_keys,
               dup_seqs |-> IF clean THEN <<>>
                            ELSE [i \in DOMAIN dup_keys |-> seqWrite(dup_keys[i])],
               undetermined_seqs |-> IF clean THEN <<>>
                            ELSE [i \in DOMAIN search_keys |-> seqWrite(search_keys[i])]]
    /\ pc' = "done"
    /\ UNCHANGED <<args, uniq_dict, uniq_order, group_of, group_keys, search_keys,
                   dup_keys, dup_list, to_remove, n, idx, uid, match, passes, run,
                   prev>>
    /\ UNCHANGED <<hdrVars, sortVars>>

----------------------------------------------------------------------------
(* A second run of collapseSeq on the same file *)

\* the class of a key at the end of a run
classOf(k) ==
    IF \E u \in DOMAIN uniq_dict : uniq_dict[u].seq = k THEN "unique"
    ELSE IF k \in Range(dup_keys) THEN "duplicate"
    ELSE "undetermined"

Result ==
    [run |-> run,
     max_missing |-> max_missing,
     groups |-> [u \in DOMAIN uniq_dict |-> uniq_dict[u].seq],
     members |-> group_of,
     dup_keys |-> dup_keys,
     search_keys |-> search_keys,
     class |-> [k \in DOMAIN seq_dict |-> classOf(k)]]

Rerun ==
    /\ pc = "done"
    /\ run = 1
    /\ prev' = Result
    /\ run' = 2
    /\ max_missing' \in max_missing..MaxMissingBound
    /\ uniq_dict' = <<>>
    /\ uniq_order' = <<>>
    /\ group_of' = [k \in DOMAIN seq_dict |-> None]
    /\ group_keys' = <<>>
    /\ search_keys' = Identity(Len(seq_dict))
    /\ dup_keys' = <<>>
    /\ n' = 0
    /\ passes' = 1
    /\ out' = NoOutput
    /\ pc' = "loop"
    /\ UNCHANGED <<seq_dict, uniq_fields, max_field, min_field, inner, phred,
                   copy_fields, copy_actions, clean, dup_list, to_remove, idx, uid,
                   match>>
    /\ UNCHANGED <<hdrVars, sortVars>>

----------------------------------------------------------------------------
(* Specifications *)

Next == ProcessKey \/ EndPass \/ WriteOutput

Spec == Init /\ [][Next]_vars

\* two runs of collapseSeq on the same records
RerunPool ==
    { Rec(<<"A", "C">>, "a", 1, <<>>),
      Rec(<<"A", "N">>, "a", 1, <<>>),
      Rec(<<"C", "N">>, "a", 3, <<>>),
      Rec(<<"N", "A">>, "a", 2, <<>>) }

InitRerun ==
    /\ Params
    /\ n = 0
    /\ \E len \in 1..MaxRecs : \E recs \in [1..len -> RerunPool] :
          Start(recs, Identity(len))

\* a direct call of findUniqueSeq with an empty uniq_dict, every key and
\* the budget max_missing, followed by the output stage
InitFindUniqueSeq ==
    /\ Params
    /\ n = max_missing
    /\ \E len \in 1..MaxRecs : \E recs \in [1..len -> RecordPool] :
          Start(recs, Identity(len))

SpecFindUniqueSeq == InitFindUniqueSeq /\ [][Next]_vars

\* the orders in which the index can hand out the keys
keyOrders(len) ==
    { p \in [1..len -> 1..len] : \A i, j \in 1..len : p[i] = p[j] => i = j }

\* collapseSeq on the four records of TestIgCore.setUp
InitExample ==
    /\ Params
    /\ n = 0
    /\ \E keys \in keyOrders(Len(records_dna)) : Start(records_dna, keys)

SpecExample == InitExample /\ [][Next]_vars

NextRerun == Next \/ Rerun

SpecRerun == InitRerun /\ [][NextRerun]_vars

----------------------------------------------------------------------------
(* collapseSeq with a copy field and its collapse action *)

CopyRec(r, c) == [r EXCEPT !.copy = c]

CopyPool ==
    { CopyRec(Rec(<<"A", "C">>, "a", 1, <<>>), <<"1">>),
      CopyRec(Rec(<<"A", "C">>, "a", 2, <<>>), <<"2">>),
      CopyRec(Rec(<<"N", "A", "C">>, "a", 3, <<>>), <<"2">>),
      CopyRec(Rec(<<"A", "N", "C">>, "a", 1, <<1>>), <<"3">>) }

ParamsCopy ==
    /\ max_missing \in 0..MaxMissingBound
    /\ uniq_fields = FALSE
    /\ max_field \in BOOLEAN
    /\ min_field = FALSE
    /\ inner \in BOOLEAN
    /\ phred = FALSE
    /\ copy_fields \in BOOLEAN
    /\ copy_actions \in {"None", "set", "cat", "sum"}
    /\ clean \in BOOLEAN

InitCopy ==
    /\ ParamsCopy
    /\ n = 0
    /\ \E len \in 1..MaxRecs : \E recs \in [1..len -> CopyPool] :
          Start(recs, Identity(len))

SpecCopy == InitCopy /\ [][Next]_vars

----------------------------------------------------------------------------
(* collapseSeq on records whose max_field / min_field annotation need not  *)
(* be the text of a number                                                 *)

NonNumeric(r) == [r EXCEPT !.numeric = FALSE]

ErrorPool ==
    { Rec(<<"A", "C">>, "a", 1, <<>>),
      Rec(<<"A", "C">>, "a", 2, <<>>),
      NonNumeric(Rec(<<"A", "C">>, "a", 0, <<>>)),
      Rec(<<"A", "N">>, "a", 3, <<>>),
      NonNumeric(Rec(<<"A", "N">>, "a", 0, <<>>)) }

ParamsError ==
    /\ max_missing \in 0..MaxMissingBound
    /\ uniq_fields = FALSE
    /\ max_field \in BOOLEAN
    /\ min_field \in BOOLEAN
    /\ ~(max_field /\ min_field)
    /\ inner = FALSE
    /\ phred = FALSE
    /\ copy_fields \in BOOLEAN
    /\ copy_actions = "None"
    /\ clean = FALSE

InitError ==
    /\ ParamsError
    /\ n = 0
    /\ \E len \in 1..MaxRecs : \E recs \in [1..len -> ErrorPool] :
          Start(recs, Identity(len))

SpecError == InitError /\ [][Next]_vars

----------------------------------------------------------------------------
(* Calls of the annotation functions on two maps, as in test_IgCore.py *)

SEQ1 == <<"S", "E", "Q", "1">>

SEQ2 == <<"S", "E", "Q", "2">>

TEST1 == <<"T", "E", "S", "T", "1">>

TEST2 == <<"T", "E", "S", "T", "2">>

TEST3 == <<"T", "E", "S", "T", "3">>

TEST11 == <<"T", "E", "S", "T", "1", "1">>

RENAMED1 == <<"R", "E", "N", "A", "M", "E", "D", "1">>

RENAMED2 == <<"R", "E", "N", "A", "M", "E", "D", "2">>

\* ann_dict_1 and ann_dict_2 of TestIgCore.setUp
test_ann_dict_1 ==
    << <<ID, <<SEQ1>>>>, <<TEST1, << <<"A">>, <<"B">> >>>>,
       <<TEST2, << <<"1">>, <<"2">> >>>> >>

test_ann_dict_2 ==
    << <<ID, <<SEQ2>>>>, <<TEST1, << <<"C">>, <<"C">> >>>>, <<TEST2, << <<"3">> >>>> >>

AnnPool ==
    { test_ann_dict_1,
      test_ann_dict_2,
      << <<ID, <<SEQ1>>>>, <<TEST2, << <<"1", "0">>, <<"9">> >>>> >>,
      << <<ID, <<SEQ2>>>>, <<TEST3, << <<"A">> >>>>,
         <<TEST1, << <<"B">>, <<"A">>, <<"B">> >>>> >> }

FieldPool == {TEST1, TEST2}

NewNamePool == {RENAMED1, RENAMED2, TEST1}

\* the argument map after a call: the functions work on a copy of it
argumentAfterInPlace(ann, returned) == IF returned = Failure THEN ann ELSE returned

argumentAfter(ann, returned) == ann

InitAnnotation ==
    /\ ann_dict_1 \in AnnPool
    /\ ann_dict_2 \in AnnPool
    /\ delimiter = default_delimiter
    /\ description = <<>>
    /\ result = <<>>
    /\ calls = <<>>
    /\ IdleCollapse
    /\ IdleSort

\* result = mergeAnnotation(ann_dict_1, ann_dict_2, prepend=...)
MergeAnnotation ==
    /\ Len(calls) < MaxCalls
    /\ \E prepend \in BOOLEAN :
         LET r == mergeAnnotation(ann_dict_1, ann_dict_2, prepend)
         IN /\ result' = r
            /\ ann_dict_1' = argumentAfter(ann_dict_1, r)
            /\ calls' = Append(calls, [op |-> "merge", ann_1 |-> ann_dict_1,
                                       ann_2 |-> ann_dict_2, prepend |-> prepend])
    /\ UNCHANGED <<ann_dict_2, delimiter, description>>
    /\ UNCHANGED <<collapseVars, sortVars>>

\* result = collapseAnnotation(ann_dict_1, action, fields=...)
CollapseAnnotation ==
    /\ Len(calls) < MaxCalls
    /\ \E action \in CollapseActions, fields \in {None, <<TEST2>>} :
         LET r == collapseAnnotation(ann_dict_1, action, fields)
         IN /\ result' = r
            /\ ann_dict_1' = argumentAfter(ann_dict_1, r)
            /\ calls' = Append(calls, [op |-> "collapse", ann_1 |-> ann_dict_1,
                                       action |-> action, fields |-> fields])
    /\ UNCHANGED <<ann_dict_2, delimiter, description>>
    /\ UNCHANGED <<collapseVars, sortVars>>

\* result = renameAnnotation(ann_dict_1, old_field, new_field)
RenameAnnotation ==
    /\ Len(calls) < MaxCalls
    /\ \E old_field \in FieldPool, new_field \in NewNamePool :
         /\ new_field \in names(ann_dict_1) => new_field = old_field
         /\ LET r == renameAnnotation(ann_dict_1, old_field, new_field)
            IN /\ result' = r
               /\ ann_dict_1' = argumentAfter(ann_dict_1, r)
               /\ calls' = Append(calls, [op |-> "rename", ann_1 |-> ann_dict_1,
                                          old_field |-> old_field,
                                          new_field |-> new_field])
    /\ UNCHANGED <<ann_dict_2, delimiter, description>>
    /\ UNCHANGED <<collapseVars, sortVars>>

NextAnnotation == MergeAnnotation \/ CollapseAnnotation \/ RenameAnnotation

SpecAnnotation == InitAnnotation /\ [][NextAnnotation]_vars

----------------------------------------------------------------------------
(* flattenAnnotation followed by parseAnnotation *)

CodecNames == { <<"F">>, <<"G">>, <<"F", "=", "G">>, <<"F", ",">> }

CodecValueLists ==
    { << <<"a">> >>,
      << <<>> >>,
      << <<"a">>, <<"b">> >>,
      << <<"a">>, <<"a">> >>,
      << <<"a", ",", "b">> >> }

CodecEntries == { <<f, v>> : f \in CodecNames, v \in CodecValueLists }

CodecMaps ==
    { << <<ID, <<SEQ1>>>> >> \o fields :
        fields \in UNION { [1..len -> CodecEntries] : len \in 0..MaxFields } }

DelimChars == {"|", "=", ","}

InitCodec ==
    /\ ann_dict_1 \in CodecMaps
    /\ ann_dict_2 = <<>>
    /\ delimiter \in [1..3 -> DelimChars]
    /\ description = <<>>
    /\ result = <<>>
    /\ calls = <<>>
    /\ IdleCollapse
    /\ IdleSort

\* description = flattenAnnotation(ann_dict_1, delimiter)
FlattenAnnotation ==
    /\ calls = <<>>
    /\ description' = flattenAnnotation(ann_dict_1, delimiter)
    /\ calls' = <<[op |-> "flatten"]>>
    /\ UNCHANGED <<ann_dict_1, ann_dict_2, delimiter, result>>
    /\ UNCHANGED <<collapseVars, sortVars>>

\* result = parseAnnotation(description, delimiter)
ParseAnnotation ==
    /\ Len(calls) = 1
    /\ result' = parseAnnotation(description, delimiter)
    /\ calls' = Append(calls, [op |-> "parse"])
    /\ UNCHANGED <<ann_dict_1, ann_dict_2, delimiter, description>>
    /\ UNCHANGED <<collapseVars, sortVars>>

NextCodec == FlattenAnnotation \/ ParseAnnotation

SpecCodec == InitCodec /\ [][NextCodec]_vars

----------------------------------------------------------------------------
(* modifyHeaders: the body of its record loop for one record, for each of  *)
(* the functions main() passes as modify_func                              *)

HeaderPool ==
    { test_ann_dict_1,
      << <<ID, <<SEQ1>>>>, <<TEST1, << <<"A">>, <<"B">> >>>>,
         <<TEST11, << <<"C">> >>>> >>,
      << <<ID, <<SEQ2>>>>, <<TEST2, << <<"1", "-", "2">> >>>> >> }

InitHeaders ==
    /\ description \in { flattenAnnotation(m, default_delimiter) : m \in HeaderPool }
    /\ delimiter = default_delimiter
    /\ ann_dict_1 = <<>>
    /\ ann_dict_2 = <<>>
    /\ result = <<>>
    /\ calls = <<>>
    /\ IdleCollapse
    /\ IdleSort

\* header = parseAnnotation(seq.description); header = modify_func(header);
\* seq.id = seq.name = flattenAnnotation(header); an exception ends the run
modifyHeaders(modified, call) ==
    /\ Len(calls) < MaxCalls
    /\ result # Failure
    /\ result' = modified
    /\ description' = IF modified = Failure THEN description
                      ELSE flattenAnnotation(modified, delimiter)
    /\ calls' = Append(calls, call)
    /\ UNCHANGED <<ann_dict_1, ann_dict_2, delimiter>>
    /\ UNCHANGED <<collapseVars, sortVars>>

AddHeader ==
    \E fields \in {<<TEST1>>, <<TEST3>>}, values \in {<< <<"C">> >>} :
       LET header == parseAnnotation(description, delimiter)
       IN modifyHeaders(addHeader(header, fields, values),
                        [op |-> "add", header |-> header, fields |-> fields,
                         values |-> values])

CollapseHeader ==
    \E fields \in {<<TEST1>>, <<TEST1, TEST2>>},
       actions \in {<<"first", "sum">>, <<"set", "cat">>} :
       LET header == parseAnnotation(description, delimiter)
       IN modifyHeaders(collapseHeader(header, fields, actions),
                        [op |-> "collapse", header |-> header, fields |-> fields,
                         actions |-> actions])

DeleteHeader ==
    \E fields \in {<<TEST1>>, <<TEST2>>} :
       LET header == parseAnnotation(description, delimiter)
       IN modifyHeaders(deleteHeader(header, fields),
                        [op |-> "delete", header |-> header, fields |-> fields])

ExpandHeader ==
    \E fields \in {<<TEST1>>, <<TEST2>>, <<TEST1, TEST2>>},
       separator \in {default_separator, "-"} :
       LET header == parseAnnotation(description, delimiter)
       IN modifyHeaders(expandHeader(header, fields, separator, delimiter),
                        [op |-> "expand", header |-> header, fields |-> fields,
                         separator |-> separator])

RenameHeader ==
    \E fields \in {<<TEST1>>, <<TEST2>>}, new_names \in {<<RENAMED1>>} :
       LET header == parseAnnotation(description, delimiter)
       IN modifyHeaders(renameHeader(header, fields, new_names),
                        [op |-> "rename", header |-> header, fields |-> fields,
                         new_names |-> new_names])

NextHeaders ==
    AddHeader \/ CollapseHeader \/ DeleteHeader \/ ExpandHeader \/ RenameHeader

SpecHeaders == InitHeaders /\ [][NextHeaders]_vars

----------------------------------------------------------------------------
(* sortSeqFile of SplitSeq.py.  One step is the code before the loop over  *)
(* sorted_keys, or one iteration of that loop.                             *)

Tags == 1..MaxTag

\* sorted(tag_dict, key=tag_dict.get): the keys by ascending tag; tag_dict
\* is a plain dict, so keys of equal tag come in any order
sortedKeys(tags) ==
    { p \in keyOrders(Len(tags)) :
        \A i, j \in DOMAIN tags : i < j => tags[p[i]] <= tags[p[j]] }

InitSort ==
    /\ \E len \in 1..MaxSortRecs : tag_dict \in [1..len -> Tags]
    /\ max_count \in {NoMaxCount} \cup 1..(MaxSortRecs + 1)
    /\ sorted_keys = <<>>
    /\ rec_count = 0
    /\ file_count = 0
    /\ out_files = <<>>
    /\ last_tag = NoTag
    /\ saved_keys = <<>>
    /\ seq_count = 0
    /\ chunk_count = 0
    /\ sort_pc = "start"
    /\ IdleCollapse
    /\ IdleHeaders

\* if max_count >= rec_count:  max_count = None
limitOf(mc, cnt) == IF mc # NoMaxCount /\ mc >= cnt THEN NoMaxCount ELSE mc

\* a new output file is opened before the saved keys are written
opensFile(mc, chunk, saved) == mc # NoMaxCount /\ chunk + Len(saved) > mc

\* for k in saved_keys:  SeqIO.write(seq_dict[k], out_handle, ...)
writeKeys(files, saved) == [files EXCEPT ![Len(files)] = @ \o saved]

SortStart ==
    /\ sort_pc = "start"
    /\ sorted_keys' \in sortedKeys(tag_dict)
    /\ rec_count' = Len(tag_dict)
    /\ max_count' = limitOf(max_count, Len(tag_dict))
    /\ file_count' = 1
    /\ out_files' = << <<>> >>
    /\ last_tag' = NoTag
    /\ saved_keys' = <<>>
    /\ seq_count' = 0
    /\ chunk_count' = 0
    /\ sort_pc' = "loop"
    /\ UNCHANGED tag_dict
    /\ UNCHANGED <<collapseVars, hdrVars>>

SortKey ==
    /\ sort_pc = "loop"
    /\ seq_count < rec_count
    /\ LET key == sorted_keys[seq_count + 1]
           changed == last_tag # NoTag /\ tag_dict[key] # last_tag
           opened == changed /\ opensFile(max_count, chunk_count, saved_keys)
           files1 == IF opened THEN Append(out_files, <<>>) ELSE out_files
           chunk1 == IF opened THEN 0 ELSE chunk_count
           files2 == IF changed THEN writeKeys(files1, saved_keys) ELSE files1
           chunk2 == IF changed THEN chunk1 + Len(saved_keys) ELSE chunk1
           saved == IF changed THEN <<key>> ELSE Append(saved_keys, key)
           last == seq_count + 1 = rec_count
       IN /\ seq_count' = seq_count + 1
          /\ file_count' = IF opened THEN file_count + 1 ELSE file_count
          /\ saved_keys' = saved
          /\ out_files' = IF last THEN writeKeys(files2, saved) ELSE files2
          /\ chunk_count' = IF last THEN chunk2 + Len(saved) ELSE chunk2
          /\ last_tag' = IF last THEN last_tag ELSE tag_dict[key]
          /\ sort_pc' = IF last THEN "done" ELSE "loop"
    /\ UNCHANGED <<tag_dict, max_count, sorted_keys, rec_count>>
    /\ UNCHANGED <<collapseVars, hdrVars>>

NextSort == SortStart \/ SortKey

SpecSort == InitSort /\ [][NextSort]_vars

----------------------------------------------------------------------------
(* collapseSeq on records whose sequences hold every character of          *)
(* default_missing_chars, the lowercase n included                         *)

MissingPool ==
    { Rec(<<"A", "C">>, "a", 1, <<>>),
      Rec(<<"A", "n">>, "a", 1, <<>>),
      Rec(<<"A", "N">>, "a", 2, <<>>),
      Rec(<<"A", "-">>, "a", 1, <<>>),
      Rec(<<"n", "A", "C">>, "a", 2, <<>>),
      Rec(<<".", "A", "n">>, "a", 1, <<>>) }

InitMissing ==
    /\ max_missing \in 0..MaxMissingBound
    /\ uniq_fields = FALSE
    /\ max_field = FALSE
    /\ min_field = FALSE
    /\ inner \in BOOLEAN
    /\ phred \in BOOLEAN
    /\ copy_fields = FALSE
    /\ copy_actions = "None"
    /\ clean = FALSE
    /\ n = 0
    /\ \E len \in 1..MaxRecs : \E recs \in [1..len -> MissingPool] :
          Start(recs, Identity(len))

SpecMissing == InitMissing /\ [][Next]_vars

----------------------------------------------------------------------------
(* Properties *)

Keys == DOMAIN seq_dict

Representatives == { uniq_dict[u].seq : u \in DOMAIN uniq_dict }

Occurrences(s, k) == Cardinality({ i \in DOMAIN s : s[i] = k })

\* the ambiguous-character count the engine computes for a key
countOf(k) == ambig_count(seq_str(seq_dict[k], inner))

\* no record of the running pass has been processed, or no pass is running
AtPassBoundary == pc \in {"write", "done"} \/ (pc = "loop" /\ idx = 1)

sameGroup(k1, k2) == group_of[k1] # None /\ group_of[k1] = group_of[k2]

\* C1: at every pass boundary and at completion each input key is in
\* exactly one place: it is the representative of exactly one group, or it
\* is once in the duplicates, or it is once in the pending list; so the
\* three sizes add up to the number of input records.
C1_Partition ==
    AtPassBoundary =>
        /\ \A k \in Keys :
              LET reps == Cardinality({ u \in DOMAIN uniq_dict : uniq_dict[u].seq = k })
                  dups == Occurrences(dup_keys, k)
                  pend == Occurrences(search_keys, k)
              IN reps + dups + pend = 1
        /\ Cardinality(DOMAIN uniq_dict) + Len(dup_keys) + Len(search_keys)
              = Cardinality(Keys)

\* a finished run with a pending key and a group whose first record was
\* demoted to the duplicates by a later record
C1_Witness ==
    /\ pc = "done"
    /\ search_keys # <<>>
    /\ \E k1, k2 \in Keys :
          /\ k1 < k2
          /\ countOf(k1) = 0
          /\ countOf(k2) = 0
          /\ sameGroup(k1, k2)
          /\ k2 \in Representatives
          /\ k1 \in Range(dup_keys)

\* C2: after a complete run the DUPCOUNT of every representative's output
\* header is the number of input records assigned to its group.
C2_DupcountIsGroupSize ==
    pc = "done" =>
        \A u \in DOMAIN out.uniq :
            out.uniq[u].DUPCOUNT = << Cardinality({ k \in Keys : group_of[k] = u }) >>

\* C3 as stated: with max_missing = 0 two records are in the same group
\* exactly when their sequences are identical and their required-equal
\* values are equal.
C3_ExactIffIdentical ==
    (pc = "done" /\ max_missing = 0) =>
        \A k1, k2 \in Keys :
            k1 # k2 =>
                (sameGroup(k1, k2) <=>
                    /\ seq_dict[k1].seq = seq_dict[k2].seq
                    /\ (uniq_fields => seq_dict[k1].ann = seq_dict[k2].ann))

\* C3 amended: with max_missing = 0 two records are in the same group
\* exactly when neither has a character of '.', '-', 'N' left in its
\* sequence (after the trimming of inner), these sequences are identical
\* and their required-equal values are equal.
C3_ExactIffIdenticalTrimmed ==
    (pc = "done" /\ max_missing = 0) =>
        \A k1, k2 \in Keys :
            k1 # k2 =>
                (sameGroup(k1, k2) <=>
                    /\ countOf(k1) = 0
                    /\ countOf(k2) = 0
                    /\ seq_str(seq_dict[k1], inner) = seq_str(seq_dict[k2], inner)
                    /\ (uniq_fields => seq_dict[k1].ann = seq_dict[k2].ann))

\* an exact run with inner that put two records with different sequences
\* into one group, kept apart a record with another required-equal value
\* and left a record with an ambiguous character pending
C3_Witness ==
    /\ pc = "done"
    /\ max_missing = 0
    /\ inner
    /\ uniq_fields
    /\ \E k1, k2, k3 \in Keys :
          /\ sameGroup(k1, k2)
          /\ seq_dict[k1].seq # seq_dict[k2].seq
          /\ seq_str(seq_dict[k1], inner) = seq_str(seq_dict[k3], inner)
          /\ seq_dict[k1].ann # seq_dict[k3].ann
          /\ group_of[k3] # None
          /\ ~sameGroup(k1, k3)

\* C4: for two runs on the same records with max_missing m < m', a key
\* unique under m is unique under m', a key duplicate under m is duplicate
\* under m', so only keys undetermined under m change their class.
C4_Monotone ==
    (pc = "done" /\ run = 2 /\ prev.max_missing < max_missing) =>
        \A k \in Keys :
            prev.class[k] # "undetermined" => classOf(k) = prev.class[k]

\* C5: two runs on the same records with the same parameters end with the
\* same groups, the same representatives, the same duplicates and the same
\* undetermined list.
C5_Deterministic ==
    (pc = "done" /\ run = 2 /\ prev.max_missing = max_missing) =>
        /\ prev.groups = Result.groups
        /\ prev.members = Result.members
        /\ prev.dup_keys = Result.dup_keys
        /\ prev.search_keys = Result.search_keys

\* the step of ProcessKey in which a record with no ambiguous character
\* is matched to a group whose representative has one
LowerCountMatched ==
    /\ pc = "loop"
    /\ to_remove' = Append(to_remove, idx)
    /\ match' # None
    /\ uniq_dict[match'].ambig = 1
    /\ countOf(search_keys[idx]) = 0

\* C6 as stated: a candidate B with ambigCount 0 matched to a group whose
\* representative A has ambigCount 1 always becomes the representative,
\* and A goes to the duplicates.
C6_LowerCountWins ==
    [][LowerCountMatched =>
          /\ uniq_dict'[match'].seq = search_keys[idx]
          /\ dup_list' = Append(dup_list, uniq_dict[match'].seq)]_vars

\* C6 amended: such a candidate B becomes the representative (A going to
\* the duplicates) exactly when the number compared for it (the max_field
\* or min_field value, or the mean quality when neither is set and the
\* records carry qualities) is strictly greater than A's; otherwise A
\* stays the representative and B goes to the duplicates.
C6_LowerCountWinsOnGreaterScore ==
    [][LowerCountMatched =>
          LET B == search_keys[idx]
              A == uniq_dict[match'].seq
          IN IF (max_field \/ min_field \/ phred)
                    /\ seq_dict[B].score > seq_dict[A].score
             THEN /\ uniq_dict'[match'].seq = B
                  /\ uniq_dict'[match'].ambig = 0
                  /\ dup_list' = Append(dup_list, A)
             ELSE /\ uniq_dict'[match'].seq = A
                  /\ uniq_dict'[match'].ambig = 1
                  /\ dup_list' = Append(dup_list, B)]_vars

\* the last processed record has no ambiguous character, was matched to a
\* group and replaced a representative that has one
C6_Witness ==
    /\ pc = "loop"
    /\ idx > 1
    /\ to_remove # <<>>
    /\ to_remove[Len(to_remove)] = idx - 1
    /\ match # None
    /\ dup_list # <<>>
    /\ LET B == search_keys[idx - 1]
           A == dup_list[Len(dup_list)]
       IN /\ countOf(B) = 0
          /\ countOf(A) = 1
          /\ group_of[A] = match
          /\ uniq_dict[match].seq = B

ExampleRun ==
    /\ pc = "done"
    /\ max_missing = 2
    /\ ~uniq_fields
    /\ seq_dict = records_dna

\* C7 as stated: the four records of the example, with max_missing = 2 and
\* no required-equal field, end in one group with representative SEQ1,
\* DUPCOUNT 4 and nothing undetermined.
C7_ExampleAllFour ==
    ExampleRun =>
        /\ Cardinality(DOMAIN uniq_dict) = 1
        /\ \A u \in DOMAIN uniq_dict :
              /\ out.uniq[u].id = 1
              /\ out.uniq[u].DUPCOUNT = <<4>>
        /\ out.undetermined = <<>>

\* C7 amended: they end in one group with representative SEQ1 and
\* DUPCOUNT 3, and SEQ4 (four ambiguous characters) is undetermined.
C7_ExampleThreeOfFour ==
    ExampleRun =>
        /\ Cardinality(DOMAIN uniq_dict) = 1
        /\ \A u \in DOMAIN uniq_dict :
              /\ out.uniq[u].id = 1
              /\ out.uniq[u].DUPCOUNT = <<3>>
        /\ out.dup \in {<<2, 3>>, <<3, 2>>}
        /\ out.undetermined = <<4>>

\* the example run is over after its three passes
C7_Witness == ExampleRun /\ passes = 3 /\ Len(out.dup) = 2

\* C8: the pass loop runs the budgets 0, 1, ... in order, at most
\* max_missing + 1 passes of at most one step per pending key; it starts
\* no pass on an empty pending list, stops before budget max_missing only
\* when nothing is pending, and leaves pending only keys whose
\* ambiguous-character count exceeds max_missing.
C8_PassBound ==
    /\ passes <= max_missing + 1
    /\ n = passes - 1
    /\ idx <= Len(search_keys) + 1
    /\ (pc = "loop" /\ passes > 1) => search_keys # <<>>
    /\ pc \in {"write", "done"} =>
          /\ search_keys = <<>> \/ passes = max_missing + 1
          /\ \A k \in Range(search_keys) : countOf(k) > max_missing

\* a run that used all its passes and left a key pending
C8_Witness ==
    /\ pc = "done"
    /\ max_missing >= 1
    /\ passes = max_missing + 1
    /\ search_keys # <<>>
    /\ dup_keys # <<>>

\* the first group, in creation order, that qualifies for a uid
RECURSIVE firstCreated(_, _)
firstCreated(u, order) ==
    IF order = <<>> THEN None
    ELSE IF Qualifies(u, Head(order)) THEN Head(order)
    ELSE firstCreated(u, Tail(order))

\* C9: in a pass with a budget above 0 findUID returns the group created
\* earliest among those whose required-equal values equal the query's and
\* whose sequence matches it, and None when there is none.
C9_FirstCreated ==
    [][(pc = "loop" /\ n > 0 /\ to_remove' = Append(to_remove, idx)) =>
          match' = firstCreated(uid', uniq_order)]_vars

agreeOnShared(a, b) ==
    \A i \in DOMAIN a \cap DOMAIN b :
        \/ upper(a[i]) = upper(b[i])
        \/ a[i] \in default_missing_chars
        \/ b[i] \in default_missing_chars

C11_CopyListPerMember ==
    \A u \in DOMAIN uniq_dict :
        LET g == uniq_dict[u]
            members == group_keys[u]
        IN /\ Len(g.cid) = IF copy_fields THEN 1 ELSE 0
           /\ makeUID(seq_dict[members[1]], inner, uniq_fields) = u
           /\ Range(members) = { k \in Keys : group_of[k] = u }
           /\ Len(members) = g.count
           /\ \A x \in DOMAIN g.cid :
                 /\ Len(g.cid[x]) = g.count
                 /\ g.cid[x] = [i \in DOMAIN members |-> seq_dict[members[i]].copy]

\* a group of three records with different copy values whose representative
\* was replaced
C11_Witness ==
    /\ copy_fields
    /\ \E u \in DOMAIN uniq_dict :
          /\ uniq_dict[u].count = 3
          /\ uniq_dict[u].seq # group_keys[u][1]
          /\ uniq_dict[u].cid[1][1] # uniq_dict[u].cid[1][2]

\* the last call made
lastCall == calls[Len(calls)]

\* C12: the map returned by mergeAnnotation(ann_1, ann_2, prepend) holds the
\* ID of ann_1; for every field of ann_2 but ID, when ann_1 has the field the
\* values are those of ann_1 followed by those of ann_2 (those of ann_2
\* followed by those of ann_1 when prepend is true), and otherwise the field
\* comes after the fields of ann_1 with the values of ann_2; every field of
\* ann_1 stays at its position, those absent from ann_2 with their values.
C12_Merge ==
    (calls # <<>> /\ lastCall.op = "merge") =>
        LET a == lastCall.ann_1
            b == lastCall.ann_2
        IN /\ get(result, ID) = get(a, ID)
           /\ \A i \in DOMAIN a : result[i][1] = a[i][1]
           /\ names(result) = names(a) \cup names(b)
           /\ \A f \in names(b) \ {ID} :
                 IF f \in names(a)
                 THEN get(result, f) = IF lastCall.prepend
                                       THEN get(b, f) \o get(a, f)
                                       ELSE get(a, f) \o get(b, f)
                 ELSE /\ get(result, f) = get(b, f)
                      /\ fieldIndex(result, f) > Len(a)
           /\ \A f \in names(a) \ names(b) : get(result, f) = get(a, f)

\* the first merge of test_mergeAnnotation
C12_Witness ==
    /\ calls # <<>>
    /\ lastCall.op = "merge"
    /\ ~lastCall.prepend
    /\ lastCall.ann_1 = test_ann_dict_1
    /\ lastCall.ann_2 = test_ann_dict_2
    /\ get(result, TEST1) = << <<"A">>, <<"B">>, <<"C">>, <<"C">> >>
    /\ get(result, TEST2) = << <<"1">>, <<"2">>, <<"3">> >>
    /\ get(result, ID) = <<SEQ1>>

firstAt(v, x) == CHOOSE i \in DOMAIN v : v[i] = x /\ \A j \in 1..(i - 1) : v[j] # x

\* the length of the first k values of a list together
RECURSIVE lenSum(_, _)
lenSum(v, k) == IF k = 0 THEN 0 ELSE lenSum(v, k - 1) + Len(v[k])

\* r is what the action makes of the value list v
collapsesTo(action, v, r) ==
    IF action = "first" THEN r = <<v[1]>>
    ELSE IF action = "last" THEN r = <<v[Len(v)]>>
    ELSE IF action = "set"
         THEN /\ Range(r) = Range(v)
              /\ \A i, j \in DOMAIN r : i < j => firstAt(v, r[i]) < firstAt(v, r[j])
    ELSE IF action = "cat"
         THEN /\ Len(r) = 1
              /\ Len(r[1]) = lenSum(v, Len(v))
              /\ \A i \in DOMAIN v : \A j \in DOMAIN v[i] :
                    r[1][lenSum(v, i - 1) + j] = v[i][j]
    ELSE /\ Len(r) = 1
         /\ isNumeric(r[1])
         /\ r[1] = str(float(r[1]))
         /\ IF action = "min"
            THEN /\ \E i \in DOMAIN v : float(r[1]) = float(v[i])
                 /\ \A i \in DOMAIN v : float(r[1]) <= float(v[i])
            ELSE IF action = "max"
            THEN /\ \E i \in DOMAIN v : float(r[1]) = float(v[i])
                 /\ \A i \in DOMAIN v : float(r[1]) >= float(v[i])
            ELSE float(r[1]) = sum(v)

\* C14: a call of collapseAnnotation that does not fail returns the map in
\* which the values of each named field (of every field but ID when none is
\* named) are replaced by the first value for 'first', the last for 'last',
\* the distinct values in first-seen order for 'set', the concatenation of
\* the values for 'cat' and the text of the numeric minimum, maximum or sum
\* for 'min', 'max', 'sum'; ID and the fields not named are unchanged, and
\* the argument map is not modified.
C14_Collapse ==
    (calls # <<>> /\ lastCall.op = "collapse" /\ result # Failure) =>
        LET a == lastCall.ann_1
            named == IF lastCall.fields = None THEN names(a) \ {ID}
                     ELSE Range(lastCall.fields)
        IN /\ Len(result) = Len(a)
           /\ \A i \in DOMAIN a :
                 /\ result[i][1] = a[i][1]
                 /\ IF a[i][1] \in named
                    THEN collapsesTo(lastCall.action, a[i][2], result[i][2])
                    ELSE result[i][2] = a[i][2]
           /\ get(result, ID) = get(a, ID)
           /\ ann_dict_1 = a

\* the last call of test_collapseAnnotation after another call on the map
C14_Witness ==
    /\ Len(calls) = 2
    /\ calls[1].op = "collapse" /\ calls[1].action = "set"
    /\ lastCall.op = "collapse"
    /\ lastCall.action = "sum"
    /\ lastCall.fields = <<TEST2>>
    /\ lastCall.ann_1 = test_ann_dict_1
    /\ get(result, TEST2) = << <<"3">> >>
    /\ get(result, TEST1) = << <<"A">>, <<"B">> >>

\* what C15 says of a call of renameAnnotation but for the absence of the
\* old name in the returned map
renamed ==
    LET a == lastCall.ann_1
        old_field == lastCall.old_field
    IN IF old_field \notin names(a) THEN result = Failure
       ELSE /\ Len(result) = Len(a)
            /\ \A i \in DOMAIN a :
                  /\ result[i][2] = a[i][2]
                  /\ result[i][1] = IF i = fieldIndex(a, old_field)
                                    THEN lastCall.new_field ELSE a[i][1]
            /\ ann_dict_1 = a

delimiterChars(d) == {d[1], d[2], d[3]}

\* a map with unique field names, ID first and values free of delimiter
\* characters
validMap(m, d) ==
    /\ m[1][1] = ID
    /\ \A i, j \in DOMAIN m : m[i][1] = m[j][1] => i = j
    /\ \A i \in DOMAIN m : \A k \in DOMAIN m[i][2] :
          Range(m[i][2][k]) \cap delimiterChars(d) = {}

\* parseAnnotation was applied to the text flattenAnnotation made of ann_dict_1
roundTripDone == Len(calls) = 2 /\ lastCall.op = "parse"

\* C16: for every map with unique field names, ID first and values free of
\* delimiter characters, and for every delimiter tuple d,
\* parseAnnotation(flattenAnnotation(m, d), d) is m.
C16_RoundTrip ==
    (roundTripDone /\ validMap(ann_dict_1, delimiter)) => result = ann_dict_1

\* C16 as amended: the round trip returns m when, in addition, the field
\* separator of d differs from the other two separators and no field name
\* holds the field separator or the key-value separator.
C16_RoundTripSeparable ==
    (/\ roundTripDone
     /\ validMap(ann_dict_1, delimiter)
     /\ delimiter[1] \notin {delimiter[2], delimiter[3]}
     /\ \A i \in DOMAIN ann_dict_1 :
           Range(ann_dict_1[i][1]) \cap {delimiter[1], delimiter[2]} = {})
        => result = ann_dict_1

\* a round trip of a map with two fields, one of two values, under the
\* default delimiters
C16_Witness ==
    /\ roundTripDone
    /\ delimiter = default_delimiter
    /\ validMap(ann_dict_1, delimiter)
    /\ Len(ann_dict_1) = 3
    /\ \E i \in DOMAIN ann_dict_1 : Len(ann_dict_1[i][2]) = 2
    /\ description = <<"S", "E", "Q", "1", "|", "F", "=", "a", ",", "b", "|",
                        "G", "=", "a">>
    /\ result = ann_dict_1

\* the fields F1..FN made of the value text of field f
partsOf(h, f, separator, d) ==
    LET values == split(join(get(h, f), d[3]), separator)
    IN [i \in DOMAIN values |-> <<f \o str(i), <<values[i]>>>>]

\* the header in which F1..FN stand where f stood
expandedInPlace(h, f, separator, d) ==
    LET i == fieldIndex(h, f)
    IN SubSeq(h, 1, i - 1) \o partsOf(h, f, separator, d) \o SubSeq(h, i + 1, Len(h))

RECURSIVE allExpandedInPlace(_, _, _, _)
allExpandedInPlace(h, fields, separator, d) ==
    IF fields = <<>> THEN h
    ELSE allExpandedInPlace(expandedInPlace(h, Head(fields), separator, d),
                            Tail(fields), separator, d)

\* the entries of a sequence of entries whose name is not in a set
RECURSIVE entriesNotIn(_, _)
entriesNotIn(entries, S) ==
    IF entries = <<>> THEN <<>>
    ELSE IF Head(entries)[1] \in S THEN entriesNotIn(Tail(entries), S)
    ELSE <<Head(entries)>> \o entriesNotIn(Tail(entries), S)

\* the header in which f is removed, the part of F1..FN whose name the
\* header holds is appended to the values of that field, and the other
\* parts follow every field of the header, in order
expandedAtEnd(h, f, separator, d) ==
    LET parts == partsOf(h, f, separator, d)
        rest == entriesNotIn(h, {f})
        kept == [i \in DOMAIN rest |->
                   IF \E k \in DOMAIN parts : parts[k][1] = rest[i][1]
                   THEN <<rest[i][1],
                          rest[i][2] \o
                          (CHOOSE p \in Range(parts) : p[1] = rest[i][1])[2]>>
                   ELSE rest[i]]
    IN kept \o entriesNotIn(parts, names(h))

RECURSIVE allExpandedAtEnd(_, _, _, _)
allExpandedAtEnd(h, fields, separator, d) ==
    IF fields = <<>> THEN h
    ELSE allExpandedAtEnd(expandedAtEnd(h, Head(fields), separator, d),
                          Tail(fields), separator, d)

\* the last call was an expandHeader that did not fail
expandDone == calls # <<>> /\ lastCall.op = "expand" /\ result # Failure

\* C17: expandHeader replaces each named field F, whose value splits on the
\* separator into N parts, by the fields F1..FN of one part each, standing
\* where F stood, and removes F; no other field changes.
C17_ExpandInPlace ==
    expandDone =>
        result = allExpandedInPlace(lastCall.header, lastCall.fields,
                                    lastCall.separator, delimiter)

\* C17 as amended: F is removed and the fields F1..FN come after every
\* field the header held, in order; the part whose name Fi is a field of
\* the header already is appended to the values of that field; the other
\* fields keep their values and their order.
C17_ExpandAtEnd ==
    expandDone =>
        /\ result = allExpandedAtEnd(lastCall.header, lastCall.fields,
                                     lastCall.separator, delimiter)
        /\ \A i \in DOMAIN lastCall.fields : lastCall.fields[i] \notin names(result)

\* TEST1=A,B between ID and TEST2 is expanded on ','
C17_Witness ==
    /\ expandDone
    /\ lastCall.header = test_ann_dict_1
    /\ lastCall.fields = <<TEST1>>
    /\ lastCall.separator = default_separator
    /\ result = << <<ID, <<SEQ1>>>>, <<TEST2, << <<"1">>, <<"2">> >>>>,
                   <<TEST11, << <<"A">> >>>>,
                   <<TEST1 \o <<"2">>, << <<"B">> >>>> >>

\* the record under key k as the input file holds it
original(k, rec) ==
    /\ rec.id = k
    /\ rec.seq = seq_dict[k].seq
    /\ rec.ann = seq_dict[k].ann
    /\ rec.copy = <<seq_dict[k].copy>>
    /\ rec.DUPCOUNT = seq_dict[k].dupcount

\* C18: the records written to the duplicate and to the undetermined output
\* are those of dup_keys and of search_keys with their original header and
\* sequence, and every representative is written with its original sequence
\* string, untrimmed also with inner.
C18_OnlyRepresentativeHeaders ==
    pc = "done" =>
        /\ Len(out.dup_seqs) = Len(out.dup)
        /\ \A i \in DOMAIN out.dup_seqs : original(out.dup[i], out.dup_seqs[i])
        /\ Len(out.undetermined_seqs) = Len(out.undetermined)
        /\ \A i \in DOMAIN out.undetermined_seqs :
              original(out.undetermined[i], out.undetermined_seqs[i])
        /\ ~clean => out.dup = dup_keys /\ out.undetermined = search_keys
        /\ \A u \in DOMAIN out.uniq :
              out.uniq[u].seq = seq_dict[out.uniq[u].id].seq

\* a run with inner whose three outputs are written, with a representative
\* that starts with an N and whose header is rewritten
C18_Witness ==
    /\ pc = "done"
    /\ inner
    /\ copy_fields
    /\ copy_actions = "sum"
    /\ Len(out.dup) > 0
    /\ Len(out.undetermined) > 0
    /\ \E u \in DOMAIN out.uniq :
          /\ out.uniq[u].seq[1] = "N"
          /\ ~original(out.uniq[u].id, out.uniq[u])

\* the step processes a record that is matched to a group and whose
\* max_field / min_field annotation float() is called on and rejects
floatFailed ==
    /\ pc = "loop"
    /\ idx <= Len(search_keys)
    /\ max_field \/ min_field
    /\ LET rec == seq_dict[search_keys[idx]]
           cnt == ambig_count(seq_str(rec, inner))
       IN /\ ~overThreshold(cnt, n)
          /\ ~rec.numeric
          /\ match' \in DOMAIN uniq_dict
          /\ cnt <= uniq_dict[match'].ambig

\* C19: when float() rejects the max_field / min_field annotation of a
\* record matched to a group, the group's count, copy lists and
\* representative and the list of duplicates are as they were before the
\* record, and the run goes on with the other records.
C19_FailureConfined ==
    [][floatFailed => /\ uniq_dict' = uniq_dict
                      /\ dup_list' = dup_list
                      /\ pc' = "loop"
                      /\ idx' = idx + 1]_vars

\* C20: when max_count is smaller than the number of records, sortSeqFile
\* writes at most max_count records to every output file and leaves no
\* output file it opened empty.
C20_MaxCountRespected ==
    (sort_pc = "done" /\ max_count # NoMaxCount) =>
        \A i \in DOMAIN out_files :
            Len(out_files[i]) <= max_count /\ Len(out_files[i]) > 0

\* the step of ProcessKey in which the record under idx is matched to an
\* existing group and the replacement test does not raise
Matched ==
    /\ pc = "loop"
    /\ to_remove' = Append(to_remove, idx)
    /\ match' # None

\* the record under idx passes the test of line 132 and the number
\* compared for it is strictly greater than the representative's
greaterThanLast ==
    LET key == search_keys[idx]
        g == uniq_dict[match']
    IN /\ countOf(key) <= g.ambig
       /\ seq_dict[key].score > seq_dict[g.seq].score

\* C21: with max_field set, a record matched to a group replaces the
\* representative exactly when its ambigCount is <= the group's and its
\* max_field value is strictly greater than the representative's; on
\* equal values the earlier representative stays; after a replacement
\* the key appended to the duplicates is the demoted representative's,
\* otherwise it is the record's own key.
C21_MaxFieldSwap ==
    [][(Matched /\ max_field) =>
          LET key == search_keys[idx]
              old == uniq_dict[match'].seq
          IN /\ (uniq_dict'[match'].seq = key) <=> greaterThanLast
             /\ ~greaterThanLast => uniq_dict'[match'].seq = old
             /\ (seq_dict[key].score = seq_dict[old].score)
                   => uniq_dict'[match'].seq = old
             /\ dup_list' = Append(dup_list,
                                   IF greaterThanLast THEN old ELSE key)]_vars

\* the last processed record B was matched to a group and replaced its
\* representative A, which is now the last duplicate
lastReplaced ==
    /\ pc = "loop"
    /\ idx > 1
    /\ to_remove # <<>>
    /\ to_remove[Len(to_remove)] = idx - 1
    /\ match # None
    /\ dup_list # <<>>
    /\ LET B == search_keys[idx - 1]
           A == dup_list[Len(dup_list)]
       IN /\ A # B
          /\ group_of[A] = match
          /\ uniq_dict[match].seq = B
          /\ seq_dict[B].score > seq_dict[A].score

\* a replacement under max_field by a record with fewer ambiguous
\* characters than the representative it demotes
C21_Witness ==
    /\ max_field
    /\ lastReplaced
    /\ countOf(search_keys[idx - 1]) < countOf(dup_list[Len(dup_list)])

\* the members of group u whose ambiguous-character count is that of the
\* group
tiedMembers(u) ==
    { k \in Range(group_keys[u]) : countOf(k) = uniq_dict[u].ambig }

\* at completion the representative of every group has the largest
\* compared value among the members tied with it in ambiguity
largestOfTied ==
    pc = "done" =>
        \A u \in DOMAIN uniq_dict : \A k \in tiedMembers(u) :
            seq_dict[k].score <= seq_dict[uniq_dict[u].seq].score

C23_QualitySwap ==
    [][(~max_field /\ ~min_field) =>
          /\ Matched =>
                LET key == search_keys[idx]
                    old == uniq_dict[match'].seq
                IN /\ (uniq_dict'[match'].seq = key)
                         => (phred /\ seq_dict[key].score > seq_dict[old].score)
                   /\ ~phred => /\ uniq_dict'[match'].seq = old
                                /\ dup_list' = Append(dup_list, key)
          /\ ~phred => \A u \in DOMAIN uniq_dict' :
                          uniq_dict'[u].seq = group_keys'[u][1]]_vars

\* a run without max_field, min_field and quality scores has ended with a
\* group whose second member, tied in ambiguity with the record that
\* created the group and of a greater score, is a duplicate
C23_Witness ==
    /\ pc = "done"
    /\ ~max_field /\ ~min_field /\ ~phred
    /\ \E u \in DOMAIN uniq_dict :
          /\ Len(group_keys[u]) >= 2
          /\ uniq_dict[u].seq = group_keys[u][1]
          /\ countOf(group_keys[u][2]) = countOf(group_keys[u][1])
          /\ seq_dict[group_keys[u][2]].score > seq_dict[group_keys[u][1]].score
          /\ group_keys[u][2] \in Range(dup_keys)

\* the pending keys whose count is above the budget, in their order
aboveBudget(keys, budget) ==
    LET above(k) == countOf(k) > budget IN SelectSeq(keys, above)

\* C24: in the pass with budget n a pending record is processed exactly
\* when its ambiguous-character count is <= n; a record above the budget
\* changes neither groups nor duplicates and stays pending; the keys left
\* pending by the pass are those above the budget, in their original
\* relative order.
C24_PassGate ==
    [][pc = "loop" =>
          IF idx <= Len(search_keys)
          THEN LET key == search_keys[idx]
               IN /\ (to_remove' = Append(to_remove, idx)) <=> (countOf(key) <= n)
                  /\ (uniq_dict' # uniq_dict \/ dup_list' # dup_list)
                        => countOf(key) <= n
                  /\ countOf(key) > n =>
                        /\ uniq_dict' = uniq_dict
                        /\ group_of' = group_of
                        /\ dup_list' = dup_list
                        /\ dup_keys' = dup_keys
                        /\ to_remove' = to_remove
                  /\ search_keys' = search_keys
          ELSE /\ search_keys' = aboveBudget(search_keys, n)
               /\ \A i \in DOMAIN search_keys' : countOf(search_keys'[i]) > n]_vars

\* a pass has ended leaving pending two keys above its budget with a
\* processed key between them in the input order
C24_Witness ==
    /\ pc = "loop"
    /\ idx = 1
    /\ n >= 1
    /\ \E i \in 1..(Len(search_keys) - 1) :
          /\ search_keys[i + 1] > search_keys[i] + 1
          /\ countOf(search_keys[i]) >= n
          /\ group_of[search_keys[i] + 1] # None

RECURSIVE lstripMissing(_)
lstripMissing(s) ==
    IF s # <<>> /\ Head(s) \in default_missing_chars
    THEN lstripMissing(Tail(s)) ELSE s

RECURSIVE rstripMissing(_)
rstripMissing(s) ==
    IF s # <<>> /\ s[Len(s)] \in default_missing_chars
    THEN rstripMissing(SubSeq(s, 1, Len(s) - 1)) ELSE s

\* the number of characters of the ambiguous set '.', '-', 'N', 'n' in
\* the sequence of a key, leading and trailing ones apart under inner
missingCount(k) ==
    LET s == IF inner THEN rstripMissing(lstripMissing(seq_dict[k].seq))
             ELSE seq_dict[k].seq
    IN Cardinality({ i \in DOMAIN s : s[i] \in default_missing_chars })

\* C25: the count that gates a record into a pass and the trimming of
\* inner treat '.', '-', 'N' and 'n' alike as ambiguous: a record is
\* processed in the pass whose budget is the number of such characters
\* in its (trimmed) sequence, so never in the exact pass when it has one.
C25_MissingSet ==
    [][(pc = "loop" /\ to_remove' = Append(to_remove, idx)) =>
          n = missingCount(search_keys[idx])]_vars

\* C26: processing one record is one atomic step: in every state between
\* two records, the state left by a record that raised included, a key
\* already assigned to a group (as representative or duplicate) is no
\* longer in the pending list.
C26_AtomicRecord ==
    \A k \in Keys : group_of[k] # None => k \notin Range(search_keys)

\* C27: during a run of collapseSeq the ambigCount stored for a group
\* never increases and always is the ambiguous-character count of the
\* group's current representative; at completion no record assigned to
\* a group has fewer ambiguous characters than its representative.
C27_StoredAmbigCount ==
    [][/\ \A u \in DOMAIN uniq_dict :
             /\ u \in DOMAIN uniq_dict'
             /\ uniq_dict'[u].ambig <= uniq_dict[u].ambig
       /\ \A u \in DOMAIN uniq_dict' :
             uniq_dict'[u].ambig = countOf(uniq_dict'[u].seq)
       /\ pc' = "done" =>
             \A u \in DOMAIN uniq_dict' : \A k \in Range(group_keys'[u]) :
                 countOf(uniq_dict'[u].seq) <= countOf(k)]_vars

\* a run has ended with a group whose representative has an ambiguous
\* character, replaced the record that created the group and is followed
\* by a member with more ambiguous characters
C27_Witness ==
    /\ pc = "done"
    /\ \E u \in DOMAIN uniq_dict :
          /\ uniq_dict[u].ambig >= 1
          /\ uniq_dict[u].seq # group_keys[u][1]
          /\ \E k \in Range(group_keys[u]) : countOf(k) > uniq_dict[u].ambig

\* record k matches record r as findUID tests it: equal required-equal
\* values and (optionally trimmed) sequences equal under testSeqEqual
matches(k, r) ==
    /\ uniq_fields => seq_dict[k].ann = seq_dict[r].ann
    /\ testSeqEqual(seq_str(seq_dict[k], inner), seq_str(seq_dict[r], inner))

\* C28: at completion every duplicate of a group matches the group's
\* final representative, also when a swap has replaced the representative
\* while the group kept the key of the record that created it.
C28_DuplicatesMatchRepresentative ==
    pc = "done" =>
        \A u \in DOMAIN uniq_dict : \A k \in Range(group_keys[u]) :
            k \in Range(dup_keys) => matches(k, uniq_dict[u].seq)

\* C29: in every reachable state no two distinct groups with equal
\* required-equal values have key sequences that match each other under
\* testSeqEqual: a group is only created for a record that no existing
\* group could take.
C29_GroupKeysApart ==
    \A u1, u2 \in DOMAIN uniq_dict :
        (u1 # u2 /\ u1[2] = u2[2]) => ~testSeqEqual(u1[1], u2[1])

\* C30: the DUPCOUNT field of every representative's output header holds
\* exactly one value, the count stored for the group, also when the
\* representative's input header already carries a DUPCOUNT annotation
\* that is not a copy field.
C30_SingleDupcount ==
    pc = "done" =>
        \A u \in DOMAIN out.uniq :
            /\ Len(out.uniq[u].DUPCOUNT) = 1
            /\ out.uniq[u].DUPCOUNT[1] = uniq_dict[u].count

====
